---- MODULE Spec2Model ----
(***************************************************************************)
(* Model of autofix_w505.py: rewrapping of overlong docstring and block    *)
(* comment lines, docstring quote normalisation, the per-file driver and   *)
(* the command line entry point.                                           *)
(*                                                                         *)
(* A line of text is a sequence of one-character strings.  Line numbers    *)
(* are 0-based as in the source, so line k of a buffer b is b[k + 1].      *)
(***************************************************************************)
EXTENDS Integers, Sequences, FiniteSets, TLC

\* ---------------------------------------------------------------------
\* Bounds of the model.
\* ---------------------------------------------------------------------
\* Largest max_length explored; max_length ranges over MaxLength-1..MaxLength.
MaxLength == 8
\* Largest number of lines of a buffer handed to rewrap_text.
MaxLines == 3

\* ---------------------------------------------------------------------
\* Characters and Python string primitives.
\* ---------------------------------------------------------------------
DQ == "\""
SQ == "'"

\* Characters matched by \s, stripped by str.strip() and split on by textwrap.
Whitespace == {" ", "\t", "\n", "\r", "\f"}

LowerLetters == <<"a","b","c","d","e","f","g","h","i","j","k","l","m",
                  "n","o","p","q","r","s","t","u","v","w","x","y","z">>
UpperLetters == <<"A","B","C","D","E","F","G","H","I","J","K","L","M",
                  "N","O","P","Q","R","S","T","U","V","W","X","Y","Z">>
Letters == {LowerLetters[i] : i \in 1..26} \cup {UpperLetters[i] : i \in 1..26}
Digits == {"0","1","2","3","4","5","6","7","8","9"}

\* str.lower() of one character (re.IGNORECASE compares case-folded).
Lower(c) ==
    IF \E i \in 1..26 : UpperLetters[i] = c
    THEN LowerLetters[CHOOSE i \in 1..26 : UpperLetters[i] = c]
    ELSE c

\* s[n:] and s[:n] for 0 <= n.
Drop(s, n) == SubSeq(s, n + 1, Len(s))
Take(s, n) == SubSeq(s, 1, IF n < Len(s) THEN n ELSE Len(s))

\* s.startswith(p), s.endswith(p)
StartsWith(s, p) == Len(p) <= Len(s) /\ SubSeq(s, 1, Len(p)) = p
EndsWith(s, p) == Len(p) <= Len(s) /\ SubSeq(s, Len(s) - Len(p) + 1, Len(s)) = p

\* Number of leading / trailing whitespace characters of s.
LeadWS(s) ==
    CHOOSE n \in 0..Len(s) :
        /\ \A i \in 1..n : s[i] \in Whitespace
        /\ (n = Len(s) \/ s[n + 1] \notin Whitespace)
TrailWS(s) ==
    CHOOSE n \in 0..Len(s) :
        /\ \A i \in (Len(s) - n + 1)..Len(s) : s[i] \in Whitespace
        /\ (n = Len(s) \/ s[Len(s) - n] \notin Whitespace)

LStrip(s) == Drop(s, LeadWS(s))
RStrip(s) == Take(s, Len(s) - TrailWS(s))
Strip(s) == LStrip(RStrip(s))

\* n copies of character c.
Rep(c, n) == [i \in 1..n |-> c]

\* Concatenation of a sequence of strings: "".join(ss).
RECURSIVE Concat(_)
Concat(ss) == IF ss = <<>> THEN <<>> ELSE Head(ss) \o Concat(Tail(ss))

\* sep.join(ss)
RECURSIVE Join(_, _)
Join(sep, ss) ==
    IF ss = <<>> THEN <<>>
    ELSE IF Len(ss) = 1 THEN ss[1]
    ELSE ss[1] \o sep \o Join(sep, Tail(ss))

\* ---------------------------------------------------------------------
\* Regular expressions of the module.
\* ---------------------------------------------------------------------
\* Length of the match of re_list_marker anchored at the start of s, 0 when
\* it does not match:  (?:[*-]|[1-9][0-9]?[.)]|[A-Za-z][.)])\s+
ListHeadLen(s) ==
    IF Len(s) >= 1 /\ s[1] \in {"*", "-"} THEN 1
    ELSE IF Len(s) >= 2 /\ s[1] \in (Digits \ {"0"}) /\ s[2] \in {".", ")"} THEN 2
    ELSE IF Len(s) >= 3 /\ s[1] \in (Digits \ {"0"}) /\ s[2] \in Digits
            /\ s[3] \in {".", ")"} THEN 3
    ELSE IF Len(s) >= 2 /\ s[1] \in Letters /\ s[2] \in {".", ")"} THEN 2
    ELSE 0

re_list_marker(s) ==
    LET h == ListHeadLen(s)
        w == LeadWS(Drop(s, h))
    IN IF h > 0 /\ w > 0 THEN h + w ELSE 0

\* re_noqa.search(s):  #\s*noqa  with re.IGNORECASE.
re_noqa(s) ==
    \E i \in 1..Len(s) :
        /\ s[i] = "#"
        /\ LET t == LStrip(Drop(s, i))
           IN /\ Len(t) >= 4
              /\ [k \in 1..4 |-> Lower(t[k])] = <<"n", "o", "q", "a">>

\* Length of the match of re_quote anchored at the start of s, 0 when it does
\* not match:  r?(?:"""|'''|"|')
QuoteBodyLen(s) ==
    IF StartsWith(s, <<DQ, DQ, DQ>>) \/ StartsWith(s, <<SQ, SQ, SQ>>) THEN 3
    ELSE IF StartsWith(s, <<DQ>>) \/ StartsWith(s, <<SQ>>) THEN 1
    ELSE 0

re_quote(s) ==
    IF StartsWith(s, <<"r">>) /\ QuoteBodyLen(Drop(s, 1)) > 0
    THEN 1 + QuoteBodyLen(Drop(s, 1))
    ELSE QuoteBodyLen(s)

\* ---------------------------------------------------------------------
\* textwrap.wrap(text, width, initial_indent, subsequent_indent,
\*               break_long_words=False, break_on_hyphens=False)
\* ---------------------------------------------------------------------
\* TextWrapper._munge_whitespace: every whitespace character becomes a space
\* (tab expansion is not modelled: no modelled input holds a tab).
munge_whitespace(text) ==
    [i \in 1..Len(text) |-> IF text[i] \in Whitespace THEN " " ELSE text[i]]

\* Length of the maximal run at the start of s of characters that are all
\* whitespace or all not whitespace.
RunLen(s) ==
    CHOOSE n \in 1..Len(s) :
        /\ \A i \in 1..n : (s[i] \in Whitespace) = (s[1] \in Whitespace)
        /\ (n = Len(s) \/ (s[n + 1] \in Whitespace) # (s[1] \in Whitespace))

\* TextWrapper._split with break_on_hyphens=False: wordsep_simple_re (\s+)
\* splits the text into alternating word and whitespace chunks.
RECURSIVE split_chunks(_)
split_chunks(text) ==
    IF text = <<>> THEN <<>>
    ELSE LET n == RunLen(text)
         IN <<Take(text, n)>> \o split_chunks(Drop(text, n))

IsBlank(chunk) == \A i \in 1..Len(chunk) : chunk[i] \in Whitespace

\* Sum of the lengths of the first k chunks.
RECURSIVE SumLen(_, _)
SumLen(chunks, k) == IF k = 0 THEN 0 ELSE Len(chunks[k]) + SumLen(chunks, k - 1)

\* A wrapper that cuts a chunk wider than the line.
break_long_words_on == TRUE

\* break_long_words: whether TextWrapper._handle_long_word may cut a chunk
\* that is wider than the line (the module passes False).
break_long_words == FALSE

\* TextWrapper._wrap_chunks: greedy fill; acc holds the lines emitted so far.
RECURSIVE wrap_chunks(_, _, _, _, _)
wrap_chunks(chunks, width, initial_indent, subsequent_indent, acc) ==
    IF chunks = <<>> THEN acc
    ELSE
      LET indent == IF acc = <<>> THEN initial_indent ELSE subsequent_indent
          w == width - Len(indent)
          \* drop_whitespace: a blank chunk at the start of a line is dropped,
          \* but not at the start of the first line.
          cs == IF IsBlank(chunks[1]) /\ acc # <<>> THEN Tail(chunks) ELSE chunks
          \* take chunks while they fit
          k == CHOOSE n \in 0..Len(cs) :
                   /\ (n = 0 \/ SumLen(cs, n) <= w)
                   /\ (n = Len(cs) \/ SumLen(cs, n + 1) > w)
          long == k < Len(cs) /\ Len(cs[k + 1]) > w
          \* _handle_long_word
          cut == long /\ break_long_words
          space == IF w < 1 THEN 1 ELSE w - SumLen(cs, k)
          k2 == IF long /\ ~break_long_words /\ k = 0 THEN 1 ELSE k
          taken == IF cut THEN Take(cs, k) \o <<Take(cs[k + 1], space)>>
                   ELSE Take(cs, k2)
          rest == IF cut THEN <<Drop(cs[k + 1], space)>> \o Drop(cs, k + 1)
                  ELSE Drop(cs, k2)
          \* drop_whitespace: a blank chunk at the end of the line is dropped
          cur_line == IF taken # <<>> /\ IsBlank(taken[Len(taken)])
                      THEN Take(taken, Len(taken) - 1) ELSE taken
          acc2 == IF cur_line # <<>>
                  THEN Append(acc, indent \o Concat(cur_line)) ELSE acc
      IN wrap_chunks(rest, width, initial_indent, subsequent_indent, acc2)

textwrap_wrap(text, width, initial_indent, subsequent_indent) ==
    wrap_chunks(split_chunks(munge_whitespace(text)), width,
                initial_indent, subsequent_indent, <<>>)

\* ---------------------------------------------------------------------
\* rewrap_text
\* ---------------------------------------------------------------------
\* lines[start:end] = new
Splice(lines, start, end, new) == Take(lines, start) \o new \o Drop(lines, end)

\* Length of the match of re_indent at the start of the line, -1 when the
\* pattern does not match:  \s*  for a docstring,  \s*#\s*  for a comment.
re_indent(line, is_docstring) ==
    IF is_docstring THEN LeadWS(line)
    ELSE LET a == LeadWS(line)
         IN IF a < Len(line) /\ line[a + 1] = "#"
            THEN a + 1 + LeadWS(Drop(line, a + 1))
            ELSE -1

\* The test that ends a paragraph at a noqa line: re_noqa.search(line) on the
\* line with the paragraph prefix removed.
noqa_break(line) == re_noqa(line)

\* Whether a line, taken after the paragraph prefix and right-stripped, ends
\* the paragraph before it: the four break tests of the inner loop.
ends_paragraph(line, is_docstring) ==
    \/ line = <<>>
    \/ is_docstring /\ Strip(line) \in {<<DQ, DQ, DQ>>, <<SQ, SQ, SQ>>}
    \/ line[1] \in Whitespace
    \/ StartsWith(line, <<">", ">", ">">>)
    \/ re_list_marker(line) > 0
    \/ noqa_break(line)

\* The inner while loop: the exclusive end of the paragraph starting before
\* end_line.  extend_with decides on the line at end_line, given that line
\* without the paragraph prefix and right-stripped.
RECURSIVE extend_paragraph(_, _, _, _)
RECURSIVE extend_with(_, _, _, _, _)
extend_with(lines, end_line, paragraph_prefix, is_docstring, line) ==
    IF ends_paragraph(line, is_docstring) THEN end_line
    ELSE IF EndsWith(line, <<":">>) THEN end_line + 1
    ELSE extend_paragraph(lines, end_line + 1, paragraph_prefix, is_docstring)

extend_paragraph(lines, end_line, paragraph_prefix, is_docstring) ==
    IF ~(end_line < Len(lines) /\ StartsWith(lines[end_line + 1], paragraph_prefix))
    THEN end_line
    ELSE extend_with(lines, end_line, paragraph_prefix, is_docstring,
                     RStrip(Drop(lines[end_line + 1], Len(paragraph_prefix))))

\* The length test of the outer loop off by one.
skip_line_off_by_one(line, max_length) ==
    Len(line) <= max_length + 1 \/ re_noqa(line)

\* Whether the outer loop passes over a line without wrapping it.
skip_line(line, max_length) == Len(line) <= max_length \/ re_noqa(line)

\* The list marker matched after an indent of ilen characters, "" if none.
list_marker_at(line, ilen) ==
    SubSeq(line, ilen + 1, ilen + re_list_marker(Drop(line, ilen)))

\* The exclusive end of the paragraph of the overlong line at lineno.
paragraph_end(lines, lineno, paragraph_prefix, is_docstring) ==
    IF EndsWith(RStrip(lines[lineno + 1]), <<":">>) THEN lineno + 1
    ELSE extend_paragraph(lines, lineno + 1, paragraph_prefix, is_docstring)

\* The text handed to textwrap: the lines of the paragraph without the
\* paragraph prefix, joined by newlines.
paragraph_text(old, paragraph_prefix_len) ==
    Join(<<"\n">>, [i \in 1..Len(old) |-> Drop(old[i], paragraph_prefix_len)])

\* The paragraph lines[start_line:end_line] and the lines textwrap makes of it.
wrapped(lines, start_line, end_line, max_length, indent, list_marker, paragraph_prefix) ==
    [indent |-> indent, list_marker |-> list_marker,
     paragraph_prefix |-> paragraph_prefix,
     start_line |-> start_line, end_line |-> end_line,
     old |-> SubSeq(lines, start_line + 1, end_line),
     new_lines |-> textwrap_wrap(
                       paragraph_text(SubSeq(lines, start_line + 1, end_line),
                                      Len(paragraph_prefix)),
                       max_length, indent \o list_marker, paragraph_prefix)]

\* The paragraph of the overlong line at lineno, given its indent and list
\* marker.
paragraph_of(lines, lineno, max_length, is_docstring, indent, list_marker) ==
    wrapped(lines, lineno,
            paragraph_end(lines, lineno, indent \o Rep(" ", Len(list_marker)),
                          is_docstring),
            max_length, indent, list_marker, indent \o Rep(" ", Len(list_marker)))

\* The paragraph of the overlong line at lineno: its indent, list marker,
\* prefix and line range, and the wrapped lines.
paragraph_at(lines, lineno, max_length, is_docstring) ==
    paragraph_of(lines, lineno, max_length, is_docstring,
                 Take(lines[lineno + 1], re_indent(lines[lineno + 1], is_docstring)),
                 list_marker_at(lines[lineno + 1],
                                re_indent(lines[lineno + 1], is_docstring)))

\* lines[start_line:end_line] = new_lines, and where the scan goes on, on the
\* state st = [lines, lineno, modified, err, hist]; hist records each
\* paragraph replaced.
replace_paragraph(st, p) ==
    [lines |-> Splice(st.lines, p.start_line, p.end_line, p.new_lines),
     lineno |-> p.start_line + Len(p.new_lines),
     modified |-> TRUE,
     err |-> st.err,
     hist |-> Append(st.hist, p)]

\* One iteration of the outer while loop.
rewrap_step(st, max_length, is_docstring) ==
    IF skip_line(st.lines[st.lineno + 1], max_length)
    THEN [st EXCEPT !.lineno = st.lineno + 1]
    ELSE IF re_indent(st.lines[st.lineno + 1], is_docstring) < 0
    THEN [st EXCEPT !.err = "AssertionError"]
    ELSE replace_paragraph(st, paragraph_at(st.lines, st.lineno, max_length,
                                            is_docstring))

RECURSIVE rewrap_loop(_, _, _)
rewrap_loop(st, max_length, is_docstring) ==
    IF st.err # "" \/ ~(st.lineno < Len(st.lines)) THEN st
    ELSE rewrap_loop(rewrap_step(st, max_length, is_docstring),
                     max_length, is_docstring)

\* rewrap_text(lines, max_length, is_docstring): the state the loop ends in,
\* with the lines as they are left in place, the returned flag modified and
\* the exception raised, if any.
rewrap_text(lines, max_length, is_docstring) ==
    rewrap_loop([lines |-> lines, lineno |-> 0, modified |-> FALSE,
                 err |-> "", hist |-> <<>>], max_length, is_docstring)

\* ---------------------------------------------------------------------
\* ensure_docstring_triple_quotes, process_docstring
\* ---------------------------------------------------------------------
TripleDouble == <<DQ, DQ, DQ>>

\* The opening quote matched at the start of the first line, after the
\* indent; <<>> when the line does not start with a quote.
opening_quote(line) ==
    LET rest == LStrip(line) IN Take(rest, re_quote(rest))

\* quote.lstrip("r")
lstrip_r(quote) == IF StartsWith(quote, <<"r">>) THEN Tail(quote) ELSE quote

\* The raw flag lost in the conversion.
raw_flag_lost(quote) == <<>>

\* raw = "r" if quote.startswith("r") else ""
raw_flag(quote) == IF StartsWith(quote, <<"r">>) THEN <<"r">> ELSE <<>>

\* ensure_docstring_triple_quotes(lines): the lines as they are left in
\* place, the returned flag and the exception raised, if any.
ensure_docstring_triple_quotes(lines) ==
    LET n == LeadWS(lines[1])
        indent == Take(lines[1], n)
        quote == opening_quote(lines[1])
        content == Drop(lines[1], n + Len(quote))
        raw == raw_flag(quote)
        end_quote == lstrip_r(quote)
        last == Len(lines)
        lines1 == [lines EXCEPT ![1] = indent \o raw \o TripleDouble \o content]
        stripped == RStrip(lines1[last])
        lines2 == [lines1 EXCEPT
                     ![last] = Take(stripped, Len(stripped) - Len(end_quote))
                               \o TripleDouble]
    IN IF quote = <<>>
       THEN [lines |-> lines, modified |-> FALSE, err |-> "ValueError"]
       ELSE IF quote \in {TripleDouble, <<"r">> \o TripleDouble}
       THEN [lines |-> lines, modified |-> FALSE, err |-> ""]
       ELSE IF ~EndsWith(RStrip(lines[last]), end_quote)
       THEN [lines |-> lines, modified |-> FALSE, err |-> "ValueError"]
       ELSE [lines |-> lines2, modified |-> TRUE, err |-> ""]

\* any(len(line) > max_length for line in lines)
any_overlong(lines, max_length) ==
    \E i \in 1..Len(lines) : Len(lines[i]) > max_length

\* The condition under which process_docstring normalises the quotes.
needs_quotes(lines, max_length, force_triple_quotes) ==
    force_triple_quotes \/ Len(lines[1]) > max_length

\* The special case of a single-line docstring that does not fit: the quotes
\* go to lines of their own.  r is the state [lines, modified, err].
split_single_line(r, max_length) ==
    LET line == r.lines[1]
        n == LeadWS(line)
        indent == Take(line, n)
        quote == opening_quote(line)
        end_quote == IF StartsWith(quote, <<"r">>) THEN Tail(quote) ELSE quote
        body == RStrip(Drop(line, n + Len(quote)))
        content == Take(body, Len(body) - Len(end_quote))
    IN IF ~(Len(r.lines) = 1 /\ Len(line) > max_length) THEN r
       ELSE IF end_quote # TripleDouble \/ ~EndsWith(body, end_quote)
       THEN [r EXCEPT !.err = "AssertionError"]
       ELSE [lines |-> <<indent \o quote, indent \o content, indent \o end_quote>>,
             modified |-> TRUE, err |-> ""]

\* The first step of process_docstring: the quotes are normalised when asked
\* for or when the first line is too long.
normalise_quotes(lines, max_length, force_triple_quotes) ==
    IF needs_quotes(lines, max_length, force_triple_quotes)
    THEN ensure_docstring_triple_quotes(lines)
    ELSE [lines |-> lines, modified |-> FALSE, err |-> ""]

\* The second step: the opening quote is matched again and a single-line
\* docstring that does not fit is split.
split_quotes(r, max_length) ==
    IF r.err # "" THEN r
    ELSE IF opening_quote(r.lines[1]) = <<>> THEN [r EXCEPT !.err = "ValueError"]
    ELSE split_single_line(r, max_length)

\* modified |= rewrap_text(lines, ...), w being what rewrap_text left.
rewrapped(r, w) ==
    [lines |-> w.lines, modified |-> r.modified \/ w.modified, err |-> w.err]

\* The last step: the text is rewrapped if any line is still too long.
rewrap_overlong(r, max_length) ==
    IF r.err # "" THEN r
    ELSE IF any_overlong(r.lines, max_length)
    THEN rewrapped(r, rewrap_text(r.lines, max_length, TRUE))
    ELSE r

\* process_docstring(lines, max_length, force_triple_quotes): the lines as
\* they are left in place, the returned flag and the exception raised, if any.
process_docstring(lines, max_length, force_triple_quotes) ==
    rewrap_overlong(
        split_quotes(normalise_quotes(lines, max_length, force_triple_quotes),
                     max_length),
        max_length)

\* ---------------------------------------------------------------------
\* process_content
\* ---------------------------------------------------------------------
\* Characters at which str.splitlines() ends a line.
LineBreaks == {"\n", "\r", "\f"}

\* content.splitlines()
RECURSIVE splitlines(_)
splitlines(text) ==
    IF text = <<>> THEN <<>>
    ELSE IF \A i \in 1..Len(text) : text[i] \notin LineBreaks THEN <<text>>
    ELSE LET i == CHOOSE k \in 1..Len(text) :
                      /\ text[k] \in LineBreaks
                      /\ \A j \in 1..(k - 1) : text[j] \notin LineBreaks
             crlf == text[i] = "\r" /\ i < Len(text) /\ text[i + 1] = "\n"
         IN <<Take(text, i - 1)>> \o splitlines(Drop(text, IF crlf THEN i + 1 ELSE i))

\* A source file is the record [text, docstring_locs, parses]: its text and
\* what ast.parse makes of it, namely the [start, end) line ranges of its
\* docstrings, or a SyntaxError.
DocstringFinder(content) ==
    [docstring_locs |-> content.docstring_locs,
     err |-> IF content.parses THEN "" ELSE "SyntaxError"]

\* sorted(locs, reverse=True) of a set of <<start, end>> pairs.
RECURSIVE sorted_reverse(_)
sorted_reverse(locs) ==
    IF locs = {} THEN <<>>
    ELSE LET top == CHOOSE a \in locs :
                      \A b \in locs : b[1] < a[1] \/ (b[1] = a[1] /\ b[2] <= a[2])
         IN <<top>> \o sorted_reverse(locs \ {top})

\* process_content works on the state
\* st = [lines, lineno, modified, err, passes, spans, blocks]: the line
\* buffer, the position of the comment scan, the flag, the exception raised,
\* if any, the passes that ran, each docstring range processed with the slice
\* lines[start_line:end_line] taken for it and the lines process_docstring
\* left of it, and each comment block collected.

\* lines[start_line:end_line] = docstring_lines if process_docstring, whose
\* outcome is r, has modified them.
splice_docstring(st, start_line, end_line, docstring_lines, r) ==
    [st EXCEPT
       !.lines = IF r.err = "" /\ r.modified
                 THEN Splice(st.lines, start_line, end_line, r.lines) ELSE @,
       !.modified = @ \/ (r.err = "" /\ r.modified),
       !.err = r.err,
       !.spans = Append(@, [start_line |-> start_line, end_line |-> end_line,
                            docstring_lines |-> docstring_lines,
                            new_lines |-> r.lines])]

\* The body of the for loop over the docstring ranges.
docstring_at(st, start_line, end_line, max_length, force_triple_quotes) ==
    splice_docstring(st, start_line, end_line,
                     SubSeq(st.lines, start_line + 1, end_line),
                     process_docstring(SubSeq(st.lines, start_line + 1, end_line),
                                       max_length, force_triple_quotes))

\* The for loop over the docstring ranges.
RECURSIVE docstring_loop(_, _, _, _)
docstring_loop(st, locs, max_length, force_triple_quotes) ==
    IF locs = <<>> \/ st.err # "" THEN st
    ELSE docstring_loop(docstring_at(st, locs[1][1], locs[1][2], max_length,
                                     force_triple_quotes),
                        Tail(locs), max_length, force_triple_quotes)

\* lines[lineno].lstrip().startswith("#")
is_comment(line) == StartsWith(LStrip(line), <<"#">>)

\* The exclusive end of the run of comment lines that starts at lineno.
RECURSIVE comment_end(_, _)
comment_end(lines, lineno) ==
    IF lineno < Len(lines) /\ is_comment(lines[lineno + 1])
    THEN comment_end(lines, lineno + 1) ELSE lineno

\* Where the scan resumes after the block [start_line, end_line) has been
\* replaced by new_block.
resume_after(start_line, end_line, new_block) == end_line

\* What is made of a comment block: rewrap_text if a line is too long.
rewrap_block(comment_lines, max_length) ==
    IF any_overlong(comment_lines, max_length)
    THEN rewrap_text(comment_lines, max_length, FALSE)
    ELSE [lines |-> comment_lines, modified |-> FALSE, err |-> ""]

\* lines[start_line:end_line] = comment_lines if rewrap_text, whose outcome is
\* r, has modified them, and lineno = end_line.  blocks records the range of
\* the block, the buffer it was collected from, the buffer after it was
\* handled and the line at which the scan resumes.
splice_block(st, start_line, end_line, r) ==
    [st EXCEPT
       !.lines = IF r.err = "" /\ r.modified
                 THEN Splice(st.lines, start_line, end_line, r.lines) ELSE @,
       !.lineno = resume_after(start_line, end_line, r.lines),
       !.modified = @ \/ (r.err = "" /\ r.modified),
       !.err = r.err,
       !.blocks = Append(@, [start_line |-> start_line, end_line |-> end_line,
                             before |-> st.lines,
                             after |-> IF r.err = "" /\ r.modified
                                       THEN Splice(st.lines, start_line, end_line,
                                                   r.lines)
                                       ELSE st.lines,
                             resume |-> resume_after(start_line, end_line,
                                                     r.lines)])]

\* The comment block [st.lineno, end_line) collected and handled.
comment_block(st, end_line, max_length) ==
    splice_block(st, st.lineno, end_line,
                 rewrap_block(SubSeq(st.lines, st.lineno + 1, end_line),
                              max_length))

\* One iteration of the comment scan.
comment_step(st, max_length) ==
    IF st.lineno = 0 /\ StartsWith(st.lines[1], <<"#", "!">>)
    THEN [st EXCEPT !.lineno = st.lineno + 1]
    ELSE IF ~is_comment(st.lines[st.lineno + 1])
    THEN [st EXCEPT !.lineno = st.lineno + 1]
    ELSE comment_block(st, comment_end(st.lines, st.lineno + 1), max_length)

RECURSIVE comment_loop(_, _)
comment_loop(st, max_length) ==
    IF st.err # "" \/ ~(st.lineno < Len(st.lines)) THEN st
    ELSE comment_loop(comment_step(st, max_length), max_length)

\* if wrap_docstrings: parse the content and process each docstring, last
\* range first.
docstring_pass(st, content, max_length, force_triple_quotes, wrap_docstrings) ==
    IF ~wrap_docstrings THEN st
    ELSE IF DocstringFinder(content).err # ""
    THEN [st EXCEPT !.err = DocstringFinder(content).err,
                    !.passes = {"docstrings"}]
    ELSE docstring_loop([st EXCEPT !.passes = {"docstrings"}],
                        sorted_reverse(DocstringFinder(content).docstring_locs),
                        max_length, force_triple_quotes)

\* if wrap_comments: scan the lines for comment blocks.
comment_pass(st, max_length, wrap_comments) ==
    IF wrap_comments /\ st.err = ""
    THEN comment_loop([st EXCEPT !.passes = @ \cup {"comments"}], max_length)
    ELSE st

\* process_content(content, max_length, force_triple_quotes, wrap_comments,
\* wrap_docstrings): the state it ends in, with the returned lines and flag
\* and the exception raised, if any.
process_content(content, max_length, force_triple_quotes, wrap_comments, wrap_docstrings) ==
    comment_pass(
        docstring_pass([lines |-> splitlines(content.text), lineno |-> 0,
                        modified |-> FALSE, err |-> "", passes |-> {},
                        spans |-> <<>>, blocks |-> <<>>],
                       content, max_length, force_triple_quotes, wrap_docstrings),
        max_length, wrap_comments)

\* ---------------------------------------------------------------------
\* process_file, main
\* ---------------------------------------------------------------------
\* A file on disk is the record [content, readable, writable]; read_text and
\* write_text raise OSError on a file that is not readable, not writable.
\* A write either replaces the whole text or raises and leaves it as it was.

\* The end of process_file, r being the outcome of process_content: the file
\* is written only if it was modified.
write_modified(file, r) ==
    IF r.err # ""
    THEN [modified |-> FALSE, err |-> r.err, file |-> file, passes |-> r.passes]
    ELSE IF ~r.modified
    THEN [modified |-> FALSE, err |-> "", file |-> file, passes |-> r.passes]
    ELSE IF ~file.writable
    THEN [modified |-> FALSE, err |-> "OSError", file |-> file, passes |-> r.passes]
    ELSE [modified |-> TRUE, err |-> "",
          file |-> [file EXCEPT
                      !.content.text = Join(<<"\n">>, r.lines) \o <<"\n">>],
          passes |-> r.passes]

\* process_file: the returned flag, the exception raised, if any, the file as
\* it is left on disk and the passes that ran on it.
process_file(file, max_length, force_triple_quotes, wrap_comments, wrap_docstrings) ==
    IF ~file.readable
    THEN [modified |-> FALSE, err |-> "OSError", file |-> file, passes |-> {}]
    ELSE write_modified(file,
                        process_content(file.content, max_length,
                                        force_triple_quotes, wrap_comments,
                                        wrap_docstrings))

\* The options main derives from the parsed arguments.
arg_wrap_comments(a) == ~a.skip_docstrings
arg_wrap_docstrings(a) == ~a.skip_comments
omit_gitignore(a) == ~a.no_gitignore

\* return 1 if error_count else 0
exit_status(errors) == IF errors # 0 THEN 1 ELSE 0

\* A failed file that is not counted.
count_error_lost(errors) == errors

\* What one failed file adds to error_count.
count_error(errors) == errors + 1

\* The try/except around process_file, r being its outcome, on the state
\* m = [fs, processed_count, modified_count, error_count, stdout, log].
\* log records each file processed.
counted(m, file_path, r) ==
    [fs |-> [m.fs EXCEPT ![file_path] = r.file],
     processed_count |-> m.processed_count + 1,
     modified_count |-> IF r.err = "" /\ r.modified
                        THEN m.modified_count + 1 ELSE m.modified_count,
     error_count |-> IF r.err # "" THEN count_error(m.error_count)
                     ELSE m.error_count,
     stdout |-> IF r.err = "" /\ r.modified
                THEN Append(m.stdout, <<"Modified", file_path>>) ELSE m.stdout,
     log |-> Append(m.log, [path |-> file_path, err |-> r.err,
                            modified |-> r.modified, passes |-> r.passes])]

\* One iteration of the inner loop of main.
main_file(m, a, file_path) ==
    counted(m, file_path,
            process_file(m.fs[file_path], a.max_doc_length, a.force_triple_quotes,
                         arg_wrap_comments(a), arg_wrap_docstrings(a)))

\* for file_path in file_paths
RECURSIVE main_files(_, _, _)
main_files(m, a, file_paths) ==
    IF file_paths = <<>> THEN m
    ELSE main_files(main_file(m, a, Head(file_paths)), a, Tail(file_paths))

\* ---------------------------------------------------------------------
\* State
\* ---------------------------------------------------------------------
VARIABLES
    pc,                   \* where the program is
    lines,                \* the line buffer being worked on
    input,                \* the buffer as it was handed in
    first,                \* the buffer after the first of two calls
    max_length,
    is_docstring,
    force_triple_quotes,
    modified,             \* the flag returned by the last call
    err,                  \* the exception raised by the last call, "" if none
    hist,                 \* the paragraphs replaced by the last rewrap_text
    content,              \* the source file handed to process_content
    wrap_comments,
    wrap_docstrings,
    blocks,               \* the comment blocks collected by process_content
    spans,                \* the docstring ranges processed by process_content
    args,                 \* the parsed command line
    paths,
    fs,                   \* the files on disk, by path
    fs0,                  \* the files on disk when main starts
    git_ok,               \* whether git check-ignore can be run
    idx,                  \* number of paths main has gone through
    processed_count,
    modified_count,
    error_count,
    stdout,
    log,                  \* the files main has handed to process_file
    exit_code

callVars == <<pc, lines, input, first, max_length, modified, err>>
wrapVars == <<is_docstring, hist>>
contentVars == <<content, wrap_comments, wrap_docstrings, blocks, spans>>
mainVars == <<args, paths, fs, fs0, git_ok, idx, processed_count,
              modified_count, error_count, stdout, log, exit_code>>
vars == <<callVars, wrapVars, force_triple_quotes, contentVars, mainVars>>

NoArgs == [skip_comments |-> FALSE, skip_docstrings |-> FALSE,
           force_triple_quotes |-> FALSE, no_gitignore |-> FALSE,
           max_doc_length |-> MaxLength]
NoContent == [text |-> <<>>, docstring_locs |-> {}, parses |-> TRUE]

\* Values of the variables a specification does not use.
WrapIdle == is_docstring = FALSE /\ hist = <<>>
ContentIdle ==
    /\ content = NoContent /\ wrap_comments = FALSE /\ wrap_docstrings = FALSE
    /\ blocks = <<>> /\ spans = <<>>
MainIdle ==
    /\ args = NoArgs /\ paths = <<>> /\ fs = <<>> /\ fs0 = <<>>
    /\ git_ok = TRUE /\ idx = 0
    /\ processed_count = 0 /\ modified_count = 0 /\ error_count = 0
    /\ stdout = <<>> /\ log = <<>> /\ exit_code = -1

\* The widths explored.
Widths == {MaxLength - 1, MaxLength}

\* All buffers of 1..MaxLines lines drawn from the set S.
Buffers(S) == UNION {[1..n -> S] : n \in 1..MaxLines}

\* ---------------------------------------------------------------------
\* Specification of rewrap_text: a buffer is wrapped, then wrapped again.
\* ---------------------------------------------------------------------
\* Lines of docstring text.
DocstringLines ==
    {
      <<"a", "a", " ", "a", "a", " ", "a", "a", " ", "a", "a">>,    \* aa aa aa aa
      <<"a", "a", " ", "b", "b">>,    \* aa bb
      <<>>,    \* (blank)
      <<" ", " ", "a", "a", "a", "a", "a", "a", "a", "a">>,    \*   aaaaaaaa
      <<"a", "a", "a", "a", "a", "a", "a", "a", "a", "a", " ", "a", "a", "a", " ", " ", " ", "b", "b", "b">>,    \* aaaaaaaaaa aaa   bbb
      <<"a", "a", " ", "#", " ", "n", "o", "q", "a", " ", "a", "a">>,    \* aa # noqa aa
      <<"a", " ", "#", "N", "o", "Q", "A">>,    \* a #NoQA
      <<"-", " ", "a", "a", " ", "a", "a", " ", "a", "a", " ", "a", "a">>,    \* - aa aa aa aa
      <<" ", " ", "a", "a">>,    \*   aa
      <<"a", "a", " ", "a", "a", " ", "a", "a", " ", "a", ":">>,    \* aa aa aa a:
      <<"\"", "\"", "\"">>    \* """
    }

\* Lines of a block comment.
CommentLines ==
    {
      <<"#", " ", "a", "a", " ", "a", "a", " ", "a">>,    \* # aa aa a
      <<"#", " ", "b", "b">>,    \* # bb
      <<"#", " ", "n", "o", "q", "a">>,    \* # noqa
      <<"#", " ", "a", " ", "#", " ", "n", "o", "q", "a", " ", "a", "a">>,    \* # a # noqa aa
      <<"#", " ", "a", "a", "a", "a", "a", "a", "a">>,    \* # aaaaaaa
      <<"#", " ", "a", "a", "a", "a", "a", "a", "a", "a", "a", "a", " ", "a", "a", "a", " ", " ", " ", "b", "b", "b">>,    \* # aaaaaaaaaa aaa   bbb
      <<"#", " ", "-", " ", "a", "a", " ", "a", "a", " ", "a", "a", " ", "a", "a">>,    \* # - aa aa aa aa
      <<"#">>,    \* #
      <<" ", " ", "#", " ", "a", "a", " ", "a", "a", " ", "a", "a">>,    \*   # aa aa aa
      <<"#", " ", "a", "a", " ", "a", "a", " ", "a", "a", " ", "a", ":">>    \* # aa aa aa a:
    }

InitWrap ==
    /\ pc = "rewrap"
    /\ is_docstring \in BOOLEAN
    /\ lines \in Buffers(IF is_docstring THEN DocstringLines ELSE CommentLines)
    /\ input = lines
    /\ first = <<>>
    /\ max_length \in Widths
    /\ modified = FALSE /\ err = "" /\ hist = <<>>
    /\ force_triple_quotes = FALSE
    /\ ContentIdle /\ MainIdle

\* rewrap_text(lines, max_length, is_docstring)
Rewrap ==
    /\ pc = "rewrap"
    /\ \E r \in {rewrap_text(lines, max_length, is_docstring)} :
          /\ lines' = r.lines
          /\ first' = r.lines
          /\ modified' = r.modified
          /\ err' = r.err
          /\ hist' = r.hist
    /\ pc' = "once"
    /\ UNCHANGED <<input, max_length, is_docstring, force_triple_quotes,
                   contentVars, mainVars>>

\* rewrap_text on the result of the first call
RewrapAgain ==
    /\ pc = "once" /\ err = ""
    /\ \E r \in {rewrap_text(lines, max_length, is_docstring)} :
          /\ lines' = r.lines
          /\ modified' = r.modified
          /\ err' = r.err
          /\ hist' = r.hist
    /\ pc' = "twice"
    /\ UNCHANGED <<input, first, max_length, is_docstring, force_triple_quotes,
                   contentVars, mainVars>>

NextWrap == Rewrap \/ RewrapAgain

SpecWrap == InitWrap /\ [][NextWrap]_vars

\* ---------------------------------------------------------------------
\* Properties of rewrap_text
\* ---------------------------------------------------------------------
\* The non-whitespace tokens of a string, in order.
Tokens(s) == SelectSeq(split_chunks(s), LAMBDA c : ~IsBlank(c))

\* The tokens of the lines ls, each taken after its first n characters.
RECURSIVE TokensAfter(_, _)
TokensAfter(ls, n) ==
    IF ls = <<>> THEN <<>>
    ELSE Tokens(Drop(Head(ls), n)) \o TokensAfter(Tail(ls), n)

\* The multiset of the elements of a sequence.
Multiset(seq) ==
    [t \in {seq[i] : i \in 1..Len(seq)} |->
        Cardinality({i \in 1..Len(seq) : seq[i] = t})]

Returned == pc \in {"once", "twice"}

\* A line made of its indent (comment sign and list marker included) and
\* one token only.
SingleTokenLine(line) ==
    LET n == re_indent(line, is_docstring)
        m == re_list_marker(Drop(line, n))
        rest == Drop(line, n + m)
    IN n >= 0 /\ rest # <<>> /\ \A i \in 1..Len(rest) : rest[i] \notin Whitespace

\* C2, as stated: after rewrap_text every line of the buffer is at most
\* max_length long, unless it holds a token wider than max_length or it
\* matches the exclusion marker.
WidthRespectAsStated ==
    Returned =>
        \A i \in 1..Len(lines) :
            \/ Len(lines[i]) <= max_length
            \/ re_noqa(lines[i])
            \/ \E k \in 1..Len(Tokens(lines[i])) :
                   Len(Tokens(lines[i])[k]) > max_length

\* C2, amended: after rewrap_text every line of the buffer is at most
\* max_length long, unless it is its indent (comment sign and list marker
\* included) followed by one single token, which then does not fit in what
\* the indent leaves of max_length, or it matches the exclusion marker.
WidthRespect ==
    Returned =>
        \A i \in 1..Len(lines) :
            \/ Len(lines[i]) <= max_length
            \/ re_noqa(lines[i])
            \/ SingleTokenLine(lines[i])

\* A paragraph was wrapped into more lines, and the buffer still holds a line
\* over max_length: its indent and one token no wider than max_length.
WidthRespectWitness ==
    /\ pc = "once"
    /\ \E k \in 1..Len(hist) : Len(hist[k].new_lines) > Len(hist[k].old)
    /\ \E i \in 1..Len(lines) :
          /\ Len(lines[i]) > max_length
          /\ ~re_noqa(lines[i])
          /\ \A k \in 1..Len(Tokens(lines[i])) :
                 Len(Tokens(lines[i])[k]) <= max_length

\* C3: every replacement made by rewrap_text keeps the multiset of the
\* non-whitespace tokens of the paragraph, taken after the indent, comment
\* sign and list marker of each line; no token is dropped, duplicated or split.
ContentPreserved ==
    \A k \in 1..Len(hist) :
        LET n == Len(hist[k].paragraph_prefix)
        IN Multiset(TokensAfter(hist[k].old, n))
               = Multiset(TokensAfter(hist[k].new_lines, n))

\* A paragraph of several lines holding a token wider than max_length was
\* rewrapped into different lines.
ContentPreservedWitness ==
    /\ pc = "once"
    /\ \E k \in 1..Len(hist) :
          /\ Len(hist[k].old) >= 2
          /\ Len(hist[k].new_lines) >= 2
          /\ hist[k].new_lines # hist[k].old
          /\ \E j \in 1..Len(hist[k].new_lines) :
                 Len(hist[k].new_lines[j]) > max_length

\* C4: a line that matches the exclusion marker is never part of a paragraph
\* that rewrap_text replaces, in docstring and in comment mode.
NoqaUntouched ==
    \A k \in 1..Len(hist) :
        \A i \in 1..Len(hist[k].old) : ~re_noqa(hist[k].old[i])

\* C5: rewrap_text on a buffer with no line over max_length changes nothing
\* and returns False, and a second rewrap_text leaves the result of the
\* first as it is.
Idempotent ==
    /\ (Returned /\ pc = "once" /\ ~any_overlong(input, max_length))
           => (lines = input /\ ~modified)
    /\ pc = "twice" => lines = first

\* ---------------------------------------------------------------------
\* Specification of the docstring functions: one docstring is handed to
\* ensure_docstring_triple_quotes, twice in a row, or to process_docstring.
\* ---------------------------------------------------------------------
DocIndents == {<<>>, <<" ", " ">>}
QuoteMarks == {<<DQ, DQ, DQ>>, <<SQ, SQ, SQ>>, <<DQ>>, <<SQ>>}
OpeningQuotes == QuoteMarks \cup {<<"r">> \o q : q \in QuoteMarks}
DocShapes == {"one_short", "one_long", "one_padded", "multi_short",
              "multi_long_first", "multi_long_middle", "trailing_comment",
              "multi_trailing_comment"}

ShortText == <<"a">>
LongText == <<"a", "a", " ", "a", "a", " ", "a", "a", " ", "a", "a">>

\* The closing delimiter that belongs to an opening quote.
ClosingOf(q) == IF q[1] = "r" THEN SubSeq(q, 2, Len(q)) ELSE q

\* What ends a line inside a docstring of several lines: a backslash when
\* the quote is a single character, nothing in a triple-quoted one.
Continued(q) == IF Len(ClosingOf(q)) = 1 THEN <<"\\">> ELSE <<>>

\* The source lines of a docstring of the given layout.
Docstring(i, q, shape) ==
    CASE shape = "one_short" -> <<i \o q \o ShortText \o ClosingOf(q)>>
      [] shape = "one_long" -> <<i \o q \o LongText \o ClosingOf(q)>>
      [] shape = "one_padded" -> <<i \o q \o ShortText \o ClosingOf(q) \o <<" ", " ">> >>
      [] shape = "multi_short" ->
             <<i \o q \o Continued(q), i \o ShortText \o Continued(q),
               i \o ClosingOf(q)>>
      [] shape = "multi_long_first" ->
             <<i \o q \o LongText \o Continued(q), i \o ShortText \o ClosingOf(q)>>
      [] shape = "multi_long_middle" ->
             <<i \o q \o Continued(q), i \o LongText \o Continued(q),
               i \o ClosingOf(q)>>
      [] shape = "trailing_comment" ->
             <<i \o q \o ShortText \o ClosingOf(q) \o <<" ", "#", " ", "c">> >>
      [] shape = "multi_trailing_comment" ->
             <<i \o q \o Continued(q), i \o LongText \o Continued(q),
               i \o ClosingOf(q) \o <<" ", "#", " ", "c">> >>

Docstrings == {Docstring(i, q, shape) :
                   i \in DocIndents, q \in OpeningQuotes, shape \in DocShapes}

InitDoc ==
    /\ pc = "doc"
    /\ lines \in Docstrings
    /\ input = lines
    /\ first = <<>>
    /\ max_length \in Widths
    /\ force_triple_quotes \in BOOLEAN
    /\ modified = FALSE /\ err = ""
    /\ WrapIdle /\ ContentIdle /\ MainIdle

\* ensure_docstring_triple_quotes(lines)
Ensure ==
    /\ pc = "doc"
    /\ \E r \in {ensure_docstring_triple_quotes(lines)} :
          /\ lines' = r.lines
          /\ first' = r.lines
          /\ modified' = r.modified
          /\ err' = r.err
    /\ pc' = "ensured"
    /\ UNCHANGED <<input, max_length, force_triple_quotes, wrapVars,
                   contentVars, mainVars>>

\* ensure_docstring_triple_quotes on the result of the first call
EnsureAgain ==
    /\ pc = "ensured" /\ err = ""
    /\ \E r \in {ensure_docstring_triple_quotes(lines)} :
          /\ lines' = r.lines
          /\ modified' = r.modified
          /\ err' = r.err
    /\ pc' = "ensured2"
    /\ UNCHANGED <<input, first, max_length, force_triple_quotes, wrapVars,
                   contentVars, mainVars>>

\* process_docstring(lines, max_length, force_triple_quotes)
ProcessDocstring ==
    /\ pc = "doc"
    /\ \E r \in {process_docstring(lines, max_length, force_triple_quotes)} :
          /\ lines' = r.lines
          /\ first' = r.lines
          /\ modified' = r.modified
          /\ err' = r.err
    /\ pc' = "processed"
    /\ UNCHANGED <<input, max_length, force_triple_quotes, wrapVars,
                   contentVars, mainVars>>

NextDoc == Ensure \/ EnsureAgain \/ ProcessDocstring

SpecDoc == InitDoc /\ [][NextDoc]_vars

\* ---------------------------------------------------------------------
\* Properties of the docstring functions
\* ---------------------------------------------------------------------
\* The opening quote of a docstring, and whether it is the canonical one.
QuoteOf(ls) == opening_quote(ls[1])
Canonical(ls) == QuoteOf(ls) \in {TripleDouble, <<"r">> \o TripleDouble}

\* The docstring ends, trailing whitespace aside, with the closing delimiter
\* of its opening quote.
Closed(ls) ==
    /\ QuoteOf(ls) # <<>>
    /\ EndsWith(RStrip(ls[Len(ls)]), ClosingOf(QuoteOf(ls)))

\* The text between the quotes: the lines of the docstring without its
\* indent and opening quote and without its closing delimiter.
Inner(ls) ==
    LET q == QuoteOf(ls)
        n == LeadWS(ls[1]) + Len(q)
        c == Len(ClosingOf(q))
        last == Len(ls)
        a == [ls EXCEPT ![1] = Drop(ls[1], n)]
        e == RStrip(a[last])
    IN [a EXCEPT ![last] = Take(e, Len(e) - c)]

\* C7: for a docstring whose opening quote is not canonical, process_docstring
\* leaves canonical opening and closing quotes when some line of the
\* docstring is over max_length or force_triple_quotes is set, and leaves the
\* quotes as they are otherwise.
QuoteTrigger ==
    (pc = "processed" /\ err = "" /\ ~Canonical(input)) =>
        IF any_overlong(input, max_length) \/ force_triple_quotes
        THEN Canonical(lines) /\ Closed(lines)
        ELSE QuoteOf(lines) = QuoteOf(input) /\ lines = input

\* C8: ensure_docstring_triple_quotes on a canonical docstring changes nothing
\* and returns False; on a docstring in another quote style it leaves a
\* triple-double docstring with the raw flag kept and the text between the
\* quotes as it was; a second call changes nothing.
QuoteRoundTrip ==
    (pc \in {"ensured", "ensured2"} /\ Closed(input)) =>
        /\ err = ""
        /\ Canonical(input) => (lines = input /\ ~modified)
        /\ ~Canonical(input) =>
              /\ pc = "ensured" => modified
              /\ QuoteOf(lines) = raw_flag(QuoteOf(input)) \o TripleDouble
              /\ QuoteOf(lines)[1] = QuoteOf(input)[1] \/ QuoteOf(input)[1] # "r"
              /\ Closed(lines)
              /\ Take(lines[1], LeadWS(lines[1])) = Take(input[1], LeadWS(input[1]))
              /\ Inner(lines) = Inner(input)
        /\ pc = "ensured2" => (lines = first /\ ~modified)

\* A raw docstring of several lines in single quotes was converted, and the
\* second call has returned.
QuoteRoundTripWitness ==
    /\ pc = "ensured2"
    /\ Len(input) > 1
    /\ QuoteOf(input) = <<"r", SQ, SQ, SQ>>
    /\ QuoteOf(lines) = <<"r">> \o TripleDouble
    /\ lines # input

\* C11: whenever process_docstring is handed a docstring whose last line does
\* not end, trailing whitespace aside, with the closing delimiter of its
\* opening quote, it raises the format error (ValueError) and leaves every
\* line of the docstring as it was.
ClosingDelimiterCheck ==
    (pc = "processed" /\ ~Closed(input)) =>
        (err = "ValueError" /\ lines = input)

\* ---------------------------------------------------------------------
\* Specification of process_content: one source file, put together from
\* 1..MaxSegments pieces, is processed.
\* ---------------------------------------------------------------------
\* Largest number of pieces of a source file.
MaxSegments == 3

\* A piece of a source file: its lines and, relative to its first line, the
\* [start, end) ranges of the docstrings ast finds in it.
\* A statement.
CodeLine ==
    [lines |-> <<
         <<"x", " ", "=", " ", "1">>    \* x = 1
     >>, locs |-> {}]

\* A block comment that wrapping makes longer.
GrowingBlock ==
    [lines |-> <<
         <<"#", " ", "a", "a", " ", "a", "a", " ", "a", "a", " ", "a", "a">>    \* # aa aa aa aa
     >>, locs |-> {}]

\* A block comment that wrapping makes shorter.
ShrinkingBlock ==
    [lines |-> <<
         <<"#", " ", "a", "a", "a", "a", " ", "a", "a", "a">>,    \* # aaaa aaa
         <<"#", " ", "a">>,    \* # a
         <<"#", " ", "a">>,    \* # a
         <<"#", " ", "a">>,    \* # a
         <<"#", " ", "a">>    \* # a
     >>, locs |-> {}]

\* A block comment that fits.
ShortBlock ==
    [lines |-> <<
         <<"#", " ", "a">>    \* # a
     >>, locs |-> {}]

\* An interpreter line (when first in the file).
Shebang ==
    [lines |-> <<
         <<"#", "!", "a", "a", " ", "a", "a", " ", "a", "a">>    \* #!aa aa aa
     >>, locs |-> {}]

\* A block comment of one token that cannot be wrapped.
TokenBlock ==
    [lines |-> <<
         <<"#", " ", "a", "a", "a", "a", "a", "a", "a", "a", "a", "a">>    \* # aaaaaaaaaa
     >>, locs |-> {}]

\* A function with a docstring that does not fit.
Function ==
    [lines |-> <<
         <<"d", "e", "f", " ", "f", "(", ")", ":">>,    \* def f():
         <<" ", " ", "'", "a", "a", " ", "a", "a", " ", "a", "a", "'">>    \*   'aa aa aa'
     >>, locs |-> {<<1, 2>>}]

\* A function with a docstring of several lines that wrapping makes shorter.
ShrinkingFunction ==
    [lines |-> <<
         <<"d", "e", "f", " ", "g", "(", ")", ":">>,    \* def g():
         <<" ", " ", DQ, DQ, DQ>>,    \*   """
         <<" ", " ", "a", "a", "a", "a", " ", "a", "a", "a">>,    \*   aaaa aaa
         <<" ", " ", "a">>,    \*   a
         <<" ", " ", "a">>,    \*   a
         <<" ", " ", "a">>,    \*   a
         <<" ", " ", DQ, DQ, DQ>>    \*   """
     >>, locs |-> {<<1, 7>>}]

\* A line that holds a form feed, as between the pages of a source file: one
\* line to the parser.
PageBreak ==
    [lines |-> <<
         <<"\f">>
     >>, locs |-> {}]

Segments == {CodeLine, GrowingBlock, ShrinkingBlock, ShortBlock, Shebang,
             TokenBlock, Function, ShrinkingFunction, PageBreak}

\* The lines of a sequence of pieces, and the docstring ranges in them.
RECURSIVE SegmentLines(_)
SegmentLines(segs) ==
    IF segs = <<>> THEN <<>> ELSE Head(segs).lines \o SegmentLines(Tail(segs))

RECURSIVE SegmentLocs(_, _)
SegmentLocs(segs, offset) ==
    IF segs = <<>> THEN {}
    ELSE {<<l[1] + offset, l[2] + offset>> : l \in Head(segs).locs}
             \cup SegmentLocs(Tail(segs), offset + Len(Head(segs).lines))

\* The source file made of the pieces segs.
SourceOf(segs) ==
    [text |-> Join(<<"\n">>, SegmentLines(segs)) \o <<"\n">>,
     docstring_locs |-> SegmentLocs(segs, 0),
     parses |-> TRUE]

Sources == {SourceOf(segs) :
                segs \in UNION {[1..n -> Segments] : n \in 1..MaxSegments}}

InitContent ==
    /\ pc = "content"
    /\ content \in Sources
    /\ max_length \in Widths
    /\ force_triple_quotes \in BOOLEAN
    /\ wrap_comments \in BOOLEAN
    /\ wrap_docstrings \in BOOLEAN
    /\ lines = <<>> /\ input = splitlines(content.text) /\ first = <<>>
    /\ modified = FALSE /\ err = ""
    /\ blocks = <<>> /\ spans = <<>>
    /\ WrapIdle /\ MainIdle

\* process_content(content, max_length, force_triple_quotes, wrap_comments,
\*                 wrap_docstrings)
ProcessContent ==
    /\ pc = "content"
    /\ \E r \in {process_content(content, max_length, force_triple_quotes,
                                wrap_comments, wrap_docstrings)} :
          /\ lines' = r.lines
          /\ modified' = r.modified
          /\ err' = r.err
          /\ blocks' = r.blocks
          /\ spans' = r.spans
    /\ pc' = "returned"
    /\ UNCHANGED <<input, first, max_length, force_triple_quotes, wrapVars,
                   content, wrap_comments, wrap_docstrings, mainVars>>

NextContent == ProcessContent

SpecContent == InitContent /\ [][NextContent]_vars

\* ---------------------------------------------------------------------
\* Properties of process_content
\* ---------------------------------------------------------------------
\* The block b starts a run of comment lines: no comment line (other than a
\* #! line at index 0) comes right before it in the buffer it was taken from.
WholeBlock(b) ==
    \/ b.start_line = 0
    \/ ~is_comment(b.before[b.start_line])
    \/ (b.start_line = 1 /\ StartsWith(b.before[1], <<"#", "!">>))

\* The scan resumes after block b without passing over a comment line.
NothingSkipped(b) ==
    LET new_end == b.end_line + Len(b.after) - Len(b.before)
    IN \A j \in new_end..(b.resume - 1) :
           j < Len(b.after) => ~is_comment(b.after[j + 1])

\* C6: with comment wrapping enabled, every block process_content collects is
\* a whole maximal run of comment lines, and no comment line is passed over,
\* however many lines the blocks before it gained or lost.
BlockCoverage ==
    (pc = "returned" /\ wrap_comments) =>
        \A k \in 1..Len(blocks) : WholeBlock(blocks[k]) /\ NothingSkipped(blocks[k])

\* C9: process_content returns modified = True exactly when the lines it
\* returns differ from the lines of its input.
ModifiedReporting ==
    (pc = "returned" /\ err = "") => (modified <=> lines # input)

\* The lines of a text as the parser numbers them: a line ends at a newline.
RECURSIVE ParserLines(_)
ParserLines(text) ==
    IF text = <<>> THEN <<>>
    ELSE IF \A i \in 1..Len(text) : text[i] # "\n" THEN <<text>>
    ELSE LET i == CHOOSE k \in 1..Len(text) :
                      text[k] = "\n" /\ \A j \in 1..(k - 1) : text[j] # "\n"
         IN <<Take(text, i - 1)>> \o ParserLines(Drop(text, i))

\* The lines the docstring range k gained.
Growth(k) ==
    Len(spans[k].new_lines) - (spans[k].end_line - spans[k].start_line)

\* The lines gained by the ranges j.. that start before line s.
RECURSIVE GrowthBefore(_, _)
GrowthBefore(s, j) ==
    IF j > Len(spans) THEN 0
    ELSE (IF spans[j].start_line < s THEN Growth(j) ELSE 0) + GrowthBefore(s, j + 1)

\* The line numbers inside the docstring ranges, in the lines of the input and
\* in the lines returned.
CoveredBefore ==
    UNION {spans[k].start_line..(spans[k].end_line - 1) : k \in 1..Len(spans)}
CoveredAfter ==
    UNION {LET s == spans[k].start_line + GrowthBefore(spans[k].start_line, 1)
           IN s..(s + Len(spans[k].new_lines) - 1) : k \in 1..Len(spans)}

\* The lines of ls, from line i on, whose number is not in covered.
RECURSIVE Outside(_, _, _)
Outside(ls, covered, i) ==
    IF i >= Len(ls) THEN <<>>
    ELSE (IF i \in covered THEN <<>> ELSE <<ls[i + 1]>>) \o Outside(ls, covered, i + 1)

\* C12: process_content goes through the docstring ranges in descending order
\* of their start; the slice lines[start:end] taken for each range is the
\* original lines of that docstring, whatever the ranges after it in the file
\* gained or lost; and when all ranges are done (the comment pass left out)
\* the lines outside the ranges are the original ones, in their order.
DocstringIndexValidity ==
    (pc = "returned" /\ wrap_docstrings) =>
        /\ \A k \in 1..(Len(spans) - 1) :
               spans[k].start_line > spans[k + 1].start_line
        /\ \A k \in 1..Len(spans) :
               spans[k].docstring_lines =
                   SubSeq(ParserLines(content.text),
                          spans[k].start_line + 1, spans[k].end_line)
        /\ (err = "" /\ ~wrap_comments) =>
               /\ Len(spans) = Cardinality(content.docstring_locs)
               /\ Outside(lines, CoveredAfter, 0) = Outside(input, CoveredBefore, 0)

\* ---------------------------------------------------------------------
\* Specification of main: the paths of the command line are gone through in
\* order, each file under try/except.
\* ---------------------------------------------------------------------
\* Largest number of paths on the command line.
MaxPaths == 2

\* A docstring and a block comment that do not fit.
BothSource ==
    [text |-> Join(<<"\n">>, <<
         <<"d", "e", "f", " ", "f", "(", ")", ":">>,    \* def f():
         <<" ", " ", "'", "a", "a", " ", "a", "a", " ", "a", "a", "'">>,    \*   'aa aa aa'
         <<"#", " ", "a", "a", " ", "a", "a", " ", "a", "a", " ", "a", "a">>    \* # aa aa aa aa
     >>) \o <<"\n">>,
     docstring_locs |-> {<<1, 2>>}, parses |-> TRUE]

\* Nothing to wrap.
CleanSource ==
    [text |-> Join(<<"\n">>, <<
         <<"x", " ", "=", " ", "1">>,    \* x = 1
         <<"#", " ", "a">>    \* # a
     >>) \o <<"\n">>,
     docstring_locs |-> {}, parses |-> TRUE]

\* A docstring that does not fit, with a comment after its closing quote.
BrokenSource ==
    [text |-> Join(<<"\n">>, <<
         <<"d", "e", "f", " ", "f", "(", ")", ":">>,    \* def f():
         <<" ", " ", "'", "a", "a", " ", "a", "a", " ", "a", "a", "'", " ", "#", " ", "c">>    \*   'aa aa aa' # c
     >>) \o <<"\n">>,
     docstring_locs |-> {<<1, 2>>}, parses |-> TRUE]

\* Not Python.
BadSyntaxSource ==
    [text |-> Join(<<"\n">>, <<
         <<"d", "e", "f", " ", "f", "(", ":">>,    \* def f(:
         <<"#", " ", "a", "a", " ", "a", "a", " ", "a", "a", " ", "a", "a">>    \* # aa aa aa aa
     >>) \o <<"\n">>,
     docstring_locs |-> {}, parses |-> FALSE]

File(source, readable, writable) ==
    [content |-> source, readable |-> readable, writable |-> writable]

\* What a.py can be.
FileKinds == {File(BothSource, TRUE, TRUE), File(CleanSource, TRUE, TRUE),
              File(BrokenSource, TRUE, TRUE), File(BadSyntaxSource, TRUE, TRUE),
              File(BothSource, FALSE, TRUE), File(BothSource, TRUE, FALSE)}

\* The paths that can be named: two files, a directory and a path that is
\* neither.  Each file is named at most once.
PathNames == {"a.py", "b.py", "pkg", "nowhere"}
DirFiles == <<"pkg/c.py", "pkg/d.py">>
FileNames == {"a.py", "b.py", "pkg/c.py", "pkg/d.py"}

PathLists ==
    {ps \in UNION {[1..n -> PathNames] : n \in 1..MaxPaths} :
        \A i, j \in 1..Len(ps) : i # j => ps[i] # ps[j]}

\* path.is_file(), path.is_dir()
is_file(path) == path \in {"a.py", "b.py"}
is_dir(path) == path = "pkg"

InitMain ==
    /\ pc = "main"
    /\ args \in [skip_comments : BOOLEAN, skip_docstrings : BOOLEAN,
                 force_triple_quotes : BOOLEAN, no_gitignore : BOOLEAN,
                 max_doc_length : {MaxLength}]
    /\ paths \in PathLists
    /\ git_ok \in BOOLEAN
    /\ \E a \in FileKinds, c \in {File(BrokenSource, TRUE, TRUE),
                                  File(BothSource, FALSE, TRUE)} :
          fs = [f \in FileNames |->
                   CASE f = "a.py" -> a
                     [] f = "pkg/c.py" -> c
                     [] OTHER -> File(BothSource, TRUE, TRUE)]
    /\ fs0 = fs
    /\ idx = 0
    /\ processed_count = 0 /\ modified_count = 0 /\ error_count = 0
    /\ stdout = <<>> /\ log = <<>> /\ exit_code = -1
    /\ lines = <<>> /\ input = <<>> /\ first = <<>>
    /\ max_length = args.max_doc_length
    /\ force_triple_quotes = args.force_triple_quotes
    /\ modified = FALSE /\ err = ""
    /\ WrapIdle /\ ContentIdle

MainState == [fs |-> fs, processed_count |-> processed_count,
              modified_count |-> modified_count, error_count |-> error_count,
              stdout |-> stdout, log |-> log]

\* The state left by the inner loop of main on file_paths.
MainRun(file_paths) ==
    \E m \in {main_files(MainState, args, file_paths)} :
       /\ fs' = m.fs
       /\ processed_count' = m.processed_count
       /\ modified_count' = m.modified_count
       /\ error_count' = m.error_count
       /\ stdout' = m.stdout
       /\ log' = m.log

mainFrame == <<lines, input, first, max_length, modified, err, wrapVars,
               force_triple_quotes, contentVars, args, paths, fs0, git_ok>>

\* The path is neither a file nor a directory.
MainNotFound ==
    /\ pc = "main" /\ idx < Len(paths)
    /\ ~is_file(paths[idx + 1]) /\ ~is_dir(paths[idx + 1])
    /\ error_count' = error_count + 1
    /\ idx' = idx + 1
    /\ UNCHANGED <<pc, fs, processed_count, modified_count, stdout, log,
                   exit_code, mainFrame>>

\* The path is a file.
MainFile ==
    /\ pc = "main" /\ idx < Len(paths)
    /\ is_file(paths[idx + 1])
    /\ MainRun(<<paths[idx + 1]>>)
    /\ idx' = idx + 1
    /\ UNCHANGED <<pc, exit_code, mainFrame>>

\* The path is a directory and recursive_glob yields its files.
MainDir ==
    /\ pc = "main" /\ idx < Len(paths)
    /\ is_dir(paths[idx + 1])
    /\ ~omit_gitignore(args) \/ git_ok
    /\ MainRun(DirFiles)
    /\ idx' = idx + 1
    /\ UNCHANGED <<pc, exit_code, mainFrame>>

\* The path is a directory and recursive_glob cannot run git check-ignore:
\* the RuntimeError is not caught and ends the run.
MainGlobFails ==
    /\ pc = "main" /\ idx < Len(paths)
    /\ is_dir(paths[idx + 1])
    /\ omit_gitignore(args) /\ ~git_ok
    /\ pc' = "aborted"
    /\ UNCHANGED <<idx, fs, processed_count, modified_count, error_count,
                   stdout, log, exit_code, mainFrame>>

\* All paths are done: the summary is printed and main returns.
MainExit ==
    /\ pc = "main" /\ idx = Len(paths)
    /\ exit_code' = exit_status(error_count)
    /\ pc' = "exit"
    /\ UNCHANGED <<idx, fs, processed_count, modified_count, error_count,
                   stdout, log, mainFrame>>

NextMain == MainNotFound \/ MainFile \/ MainDir \/ MainGlobFails \/ MainExit

SpecMain == InitMain /\ [][NextMain]_vars

\* ---------------------------------------------------------------------
\* Properties of main
\* ---------------------------------------------------------------------
\* The comment lines of a text, and its other lines.
CommentsOf(text) == SelectSeq(splitlines(text), is_comment)
CodeOf(text) == SelectSeq(splitlines(text), LAMBDA l : ~is_comment(l))

\* The files main is to process, in order.
RECURSIVE FilesOf(_)
FilesOf(ps) ==
    IF ps = <<>> THEN <<>>
    ELSE (IF is_file(Head(ps)) THEN <<Head(ps)>>
          ELSE IF is_dir(Head(ps)) THEN DirFiles ELSE <<>>) \o FilesOf(Tail(ps))

\* C1: each skip flag disables its own pass and no other.  Of a file that was
\* processed without error, --skip-comments leaves the comment lines as they
\* were and --skip-docstrings leaves the other lines as they were; a block
\* comment that does not fit is rewrapped unless --skip-comments is given, and
\* a docstring that does not fit is processed unless --skip-docstrings is.
SkipFlags ==
    \A k \in 1..Len(log) :
        LET p == log[k].path
            before == fs0[p].content.text
            after == fs[p].content.text
        IN log[k].err = "" =>
             /\ args.skip_comments => CommentsOf(after) = CommentsOf(before)
             /\ args.skip_docstrings => CodeOf(after) = CodeOf(before)
             /\ (fs0[p].content = BothSource /\ ~args.skip_comments)
                    => CommentsOf(after) # CommentsOf(before)
             /\ (fs0[p].content = BothSource /\ ~args.skip_docstrings)
                    => CodeOf(after) # CodeOf(before)

\* C10: a failure while processing one file leaves that file as it was on
\* disk, adds exactly one to the error count and does not keep any later file
\* from being processed; at the end the exit code is 1 exactly when at least
\* one error was counted, and 0 otherwise.
ErrorIsolation ==
    /\ \A k \in 1..Len(log) : log[k].err # "" => fs[log[k].path] = fs0[log[k].path]
    /\ error_count = Cardinality({k \in 1..Len(log) : log[k].err # ""})
                     + Cardinality({i \in 1..idx :
                                      ~is_file(paths[i]) /\ ~is_dir(paths[i])})
    /\ processed_count = Len(log)
    /\ [k \in 1..Len(log) |-> log[k].path] = FilesOf(SubSeq(paths, 1, idx))
    /\ pc = "exit" =>
          /\ idx = Len(paths)
          /\ exit_code = (IF error_count >= 1 THEN 1 ELSE 0)

\* main has returned 1 after a file failed and a later file was processed and
\* rewritten.
ErrorIsolationWitness ==
    /\ pc = "exit" /\ exit_code = 1
    /\ \E i, j \in 1..Len(log) :
          /\ i < j
          /\ log[i].err # ""
          /\ log[j].err = "" /\ log[j].modified
          /\ fs[log[j].path] # fs0[log[j].path]

====
